---- MODULE Spec2Model ----
(***************************************************************************)
(* A state-machine model of two view components of Signal-Desktop:         *)
(*   - EditConversationAttributesModal                                     *)
(*       (ts/components/conversation/conversation-details)                 *)
(*   - StoryViewsNRepliesModal (ts/components)                             *)
(* Each component's props, hook state, refs and pending asynchronous work  *)
(* are variables; each event handler is one action.  The callbacks the     *)
(* host supplies (makeRequest, onClose, onReply, onReact) are recorded in  *)
(* call counters and last-argument variables.                              *)
(***************************************************************************)
EXTENDS Integers, Sequences, FiniteSets, TLC

(***************************************************************************)
(* Bounds of the model.                                                    *)
(***************************************************************************)
MaxSubmits == 1
MaxCloseClicks == 1
MaxReplies == 1
MaxViews == 1
MaxReplyCalls == 1
MaxReacts == 1
MaxClock == 2

(***************************************************************************)
(* Value domains.  JavaScript `undefined` is the value Undefined.          *)
(***************************************************************************)
Undefined == "undefined"
Titles == {"", "a", "b"}
AvatarPaths == {Undefined, "", "p"}
UserAvatars == {Undefined, "u1"}
NoPick == "nopick"

\* const TEMPORARY_AVATAR_VALUE = new ArrayBuffer(0)
TEMPORARY_AVATAR_VALUE == "TEMPORARY_AVATAR_VALUE"

\* enum RequestState
Inactive == "Inactive"
InactiveWithError == "InactiveWithError"
Active == "Active"
RequestState == {Inactive, InactiveWithError, Active}

\* JavaScript truthiness of an optional string
TruthyString(s) == s /= Undefined /\ s /= ""

\* The bytes imagePathToArrayBuffer returns for an image path
imagePathToArrayBuffer(src) == "bytes(" \o src \o ")"

\* enum Tab
TabReplies == "Replies"
TabViews == "Views"

\* replies the host may supply (ReplyType: the fields the render reads)
ReplyValues ==
    { [reactionEmoji |-> "e1", deletedForEveryone |-> FALSE],
      [reactionEmoji |-> Undefined, deletedForEveryone |-> FALSE],
      [reactionEmoji |-> Undefined, deletedForEveryone |-> TRUE] }

\* views the host may supply (StorySendStateType: updatedAt is optional)
ViewValues == { [updatedAt |-> Undefined] }

\* drafts the user may type: message text and its mention ranges
Drafts ==
    { [text |-> "", mentions |-> <<>>],
      [text |-> "hi", mentions |-> <<>>],
      [text |-> "hi @m", mentions |-> <<"m">>] }

Emojis == {"e1", "e2"}
NoEmoji == "noemoji"

VARIABLES
    \* ---- EditConversationAttributesModal ----
    mounted,                 \* the component instance is mounted
    externalTitle,           \* prop title
    externalAvatarPath,      \* prop avatarPath
    requestState,            \* prop requestState
    startingTitleRef,        \* useRef(externalTitle)
    startingAvatarPathRef,   \* useRef(externalAvatarPath)
    avatar,                  \* useState: working avatar
    title,                   \* useState: working title
    hasAvatarChanged,        \* useState: avatar dirty flag
    shouldCancel,            \* the effect closure's cancellation flag
    resolution,              \* position of the async avatar resolution
    logWarns,                \* number of log.warn calls
    lastRequest,             \* <<>> or <<r>>, r the last makeRequest argument
    makeRequestCalls,        \* number of makeRequest calls
    closeClicks,             \* clicks on the close and cancel buttons
    onCloseCalls,            \* number of onClose calls
    userPick,                \* the last avatar the user picked, or NoPick
    \* ---- StoryViewsNRepliesModal ----
    canReply,                \* prop canReply
    isGroupStory,            \* prop isGroupStory (absent is falsy: FALSE)
    isMyStory,               \* prop isMyStory (absent is falsy: FALSE)
    replies,                 \* prop replies
    views,                   \* prop views
    selectedTab,             \* the Tabs component's selected tab
    showReactionPicker,      \* useState(false)
    messageBodyText,         \* useState('')
    draftText,               \* the composer's current text
    draftMentions,           \* the composer's current mention ranges
    now,                     \* the clock the composer stamps a submit with
    lastReply,               \* <<>> or <<args>>, the last onReply arguments
    onReplyCalls,            \* number of onReply calls
    lastReact,               \* <<>> or <<emoji>>, the last onReact argument
    onReactCalls,            \* number of onReact calls
    pickedEmoji,             \* the last emoji picked in the reaction picker
    reactClickParity,        \* flips on each click on the react button
    pickerCloseParity        \* flips on each close event of the picker

editVars == <<mounted, externalTitle, externalAvatarPath, requestState,
              startingTitleRef, startingAvatarPathRef, avatar, title,
              hasAvatarChanged, shouldCancel, resolution, logWarns,
              lastRequest, makeRequestCalls, closeClicks, onCloseCalls,
              userPick>>

storyVars == <<canReply, isGroupStory, isMyStory, replies, views,
               selectedTab, showReactionPicker, messageBodyText, draftText,
               draftMentions, now, lastReply, onReplyCalls, lastReact,
               onReactCalls, pickedEmoji, reactClickParity,
               pickerCloseParity>>

vars == <<editVars, storyVars>>

(***************************************************************************)
(* EditConversationAttributesModal: values derived on every render.        *)
(***************************************************************************)
hasChangedExternally ==
    \/ startingAvatarPathRef /= externalAvatarPath
    \/ startingTitleRef /= externalTitle

hasTitleChanged == title /= externalTitle

isRequestActive == requestState = Active

\* canSubmit without the title.length > 0 conjunct
canSubmit_NoTitleCheck ==
    /\ ~isRequestActive
    /\ (hasChangedExternally \/ hasTitleChanged \/ hasAvatarChanged)

canSubmit ==
    /\ ~isRequestActive
    /\ (hasChangedExternally \/ hasTitleChanged \/ hasAvatarChanged)
    /\ Len(title) > 0

\* the close button given the submit button's disabled expression
closeButtonDisabled_AsSubmit == ~canSubmit

\* disabled attributes of the rendered controls
closeButtonDisabled == isRequestActive
cancelButtonDisabled == isRequestActive
avatarInputDisabled == isRequestActive
titleInputDisabled == isRequestActive
submitDisabled == ~canSubmit

EmptyRequest == [k \in {} |-> Undefined]

\* onSubmit without the two dirty checks: both fields always sent
SubmitRequest_AlwaysBoth == ("avatar" :> avatar) @@ ("title" :> title)

\* onSubmit without the avatar dirty check: the working avatar always sent
SubmitRequest_AvatarUnconditional ==
    ("avatar" :> avatar)
    @@ (IF hasTitleChanged THEN "title" :> title ELSE EmptyRequest)

\* the partial record onSubmit builds
SubmitRequest ==
    (IF hasAvatarChanged THEN "avatar" :> avatar ELSE EmptyRequest)
    @@ (IF hasTitleChanged THEN "title" :> title ELSE EmptyRequest)

(***************************************************************************)
(* State after the component has mounted and its effect has run.           *)
(***************************************************************************)
InitEdit ==
    /\ mounted = TRUE
    /\ externalTitle \in Titles
    /\ externalAvatarPath \in AvatarPaths
    /\ requestState \in RequestState
    /\ startingTitleRef = externalTitle
    /\ startingAvatarPathRef = externalAvatarPath
    /\ avatar = IF TruthyString(externalAvatarPath)
                THEN TEMPORARY_AVATAR_VALUE ELSE Undefined
    /\ title = externalTitle
    /\ hasAvatarChanged = FALSE
    /\ shouldCancel = FALSE
    \* the effect returns noop without a starting path; otherwise it starts
    \* imagePathToArrayBuffer, which throws at once without a canvas context
    \* and otherwise awaits image.decode()
    /\ resolution \in IF TruthyString(externalAvatarPath)
                      THEN {"decoding", "rejected"} ELSE {"none"}
    /\ logWarns = 0
    /\ lastRequest = <<>>
    /\ makeRequestCalls = 0
    /\ closeClicks = 0
    /\ onCloseCalls = 0
    /\ userPick = NoPick

(***************************************************************************)
(* User events.                                                            *)
(***************************************************************************)
\* GroupTitleInput onChangeValue={setTitle}
ChangeTitle ==
    /\ mounted /\ ~titleInputDisabled
    /\ \E t \in Titles : title' = t
    /\ UNCHANGED <<mounted, externalTitle, externalAvatarPath, requestState,
                   startingTitleRef, startingAvatarPathRef, avatar,
                   hasAvatarChanged, shouldCancel, resolution, logWarns,
                   lastRequest, makeRequestCalls, closeClicks, onCloseCalls,
                   userPick>>
    /\ UNCHANGED storyVars

\* AvatarInput onChange
ChangeAvatar ==
    /\ mounted /\ ~avatarInputDisabled
    /\ \E newAvatar \in UserAvatars :
          /\ avatar' = newAvatar
          /\ userPick' = newAvatar
    /\ hasAvatarChanged' = TRUE
    /\ UNCHANGED <<mounted, externalTitle, externalAvatarPath, requestState,
                   startingTitleRef, startingAvatarPathRef, title,
                   shouldCancel, resolution, logWarns, lastRequest,
                   makeRequestCalls, closeClicks, onCloseCalls>>
    /\ UNCHANGED storyVars

\* form onSubmit, reached through the submit button
Submit ==
    /\ mounted /\ ~submitDisabled
    /\ makeRequestCalls < MaxSubmits
    /\ lastRequest' = <<SubmitRequest>>
    /\ makeRequestCalls' = makeRequestCalls + 1
    /\ UNCHANGED <<mounted, externalTitle, externalAvatarPath, requestState,
                   startingTitleRef, startingAvatarPathRef, avatar, title,
                   hasAvatarChanged, shouldCancel, resolution, logWarns,
                   closeClicks, onCloseCalls, userPick>>
    /\ UNCHANGED storyVars

\* a click on a button calls its onClick unless the button is disabled
ClickButton(disabled) ==
    /\ mounted
    /\ closeClicks < MaxCloseClicks
    /\ closeClicks' = closeClicks + 1
    /\ onCloseCalls' = IF disabled THEN onCloseCalls ELSE onCloseCalls + 1
    /\ UNCHANGED <<mounted, externalTitle, externalAvatarPath, requestState,
                   startingTitleRef, startingAvatarPathRef, avatar, title,
                   hasAvatarChanged, shouldCancel, resolution, logWarns,
                   lastRequest, makeRequestCalls, userPick>>
    /\ UNCHANGED storyVars

ClickCloseButton == ClickButton(closeButtonDisabled)

ClickCancelButton == ClickButton(cancelButtonDisabled)

(***************************************************************************)
(* The host: new props, and unmounting.                                    *)
(***************************************************************************)
SetRequestState ==
    /\ mounted
    /\ \E rs \in RequestState \ {requestState} : requestState' = rs
    /\ UNCHANGED <<mounted, externalTitle, externalAvatarPath,
                   startingTitleRef, startingAvatarPathRef, avatar, title,
                   hasAvatarChanged, shouldCancel, resolution, logWarns,
                   lastRequest, makeRequestCalls, closeClicks, onCloseCalls,
                   userPick>>
    /\ UNCHANGED storyVars

SetExternalTitle ==
    /\ mounted
    /\ \E t \in Titles \ {externalTitle} : externalTitle' = t
    /\ UNCHANGED <<mounted, externalAvatarPath, requestState,
                   startingTitleRef, startingAvatarPathRef, avatar, title,
                   hasAvatarChanged, shouldCancel, resolution, logWarns,
                   lastRequest, makeRequestCalls, closeClicks, onCloseCalls,
                   userPick>>
    /\ UNCHANGED storyVars

SetExternalAvatarPath ==
    /\ mounted
    /\ \E p \in AvatarPaths \ {externalAvatarPath} : externalAvatarPath' = p
    /\ UNCHANGED <<mounted, externalTitle, requestState,
                   startingTitleRef, startingAvatarPathRef, avatar, title,
                   hasAvatarChanged, shouldCancel, resolution, logWarns,
                   lastRequest, makeRequestCalls, closeClicks, onCloseCalls,
                   userPick>>
    /\ UNCHANGED storyVars

\* the effect's cleanup: noop without a starting path, else shouldCancel = true
Unmount ==
    /\ mounted
    /\ mounted' = FALSE
    /\ shouldCancel' = IF TruthyString(startingAvatarPathRef)
                       THEN TRUE ELSE shouldCancel
    /\ UNCHANGED <<externalTitle, externalAvatarPath, requestState,
                   startingTitleRef, startingAvatarPathRef, avatar, title,
                   hasAvatarChanged, resolution, logWarns, lastRequest,
                   makeRequestCalls, closeClicks, onCloseCalls, userPick>>
    /\ UNCHANGED storyVars

(***************************************************************************)
(* The asynchronous avatar resolution started by the effect.               *)
(***************************************************************************)
\* await image.decode() resolves; the canvas is drawn and
\* canvasToArrayBuffer is awaited
DecodeResolves ==
    /\ resolution = "decoding"
    /\ resolution' = "encoding"
    /\ UNCHANGED <<mounted, externalTitle, externalAvatarPath, requestState,
                   startingTitleRef, startingAvatarPathRef, avatar, title,
                   hasAvatarChanged, shouldCancel, logWarns, lastRequest,
                   makeRequestCalls, closeClicks, onCloseCalls, userPick>>
    /\ UNCHANGED storyVars

\* await image.decode() rejects
DecodeRejects ==
    /\ resolution = "decoding"
    /\ resolution' = "rejected"
    /\ UNCHANGED <<mounted, externalTitle, externalAvatarPath, requestState,
                   startingTitleRef, startingAvatarPathRef, avatar, title,
                   hasAvatarChanged, shouldCancel, logWarns, lastRequest,
                   makeRequestCalls, closeClicks, onCloseCalls, userPick>>
    /\ UNCHANGED storyVars

\* await canvasToArrayBuffer(canvas) rejects
EncodeRejects ==
    /\ resolution = "encoding"
    /\ resolution' = "rejected"
    /\ UNCHANGED <<mounted, externalTitle, externalAvatarPath, requestState,
                   startingTitleRef, startingAvatarPathRef, avatar, title,
                   hasAvatarChanged, shouldCancel, logWarns, lastRequest,
                   makeRequestCalls, closeClicks, onCloseCalls, userPick>>
    /\ UNCHANGED storyVars

\* EncodeResolves without the shouldCancel check
EncodeResolves_NoCancelCheck ==
    /\ resolution = "encoding"
    /\ resolution' = "done"
    /\ avatar' = imagePathToArrayBuffer(startingAvatarPathRef)
    /\ UNCHANGED <<mounted, externalTitle, externalAvatarPath, requestState,
                   startingTitleRef, startingAvatarPathRef, title,
                   hasAvatarChanged, shouldCancel, logWarns, lastRequest,
                   makeRequestCalls, closeClicks, onCloseCalls, userPick>>
    /\ UNCHANGED storyVars

\* imagePathToArrayBuffer resolves with the buffer: return if shouldCancel,
\* else setAvatar(buffer)
EncodeResolves ==
    /\ resolution = "encoding"
    /\ IF shouldCancel
       THEN /\ resolution' = "cancelled"
            /\ avatar' = avatar
       ELSE /\ resolution' = "done"
            /\ avatar' = imagePathToArrayBuffer(startingAvatarPathRef)
    /\ UNCHANGED <<mounted, externalTitle, externalAvatarPath, requestState,
                   startingTitleRef, startingAvatarPathRef, title,
                   hasAvatarChanged, shouldCancel, logWarns, lastRequest,
                   makeRequestCalls, closeClicks, onCloseCalls, userPick>>
    /\ UNCHANGED storyVars

\* a catch block that also clears the working avatar
CatchRejection_ClearsAvatar ==
    /\ resolution = "rejected"
    /\ resolution' = "failed"
    /\ logWarns' = logWarns + 1
    /\ avatar' = Undefined
    /\ UNCHANGED <<mounted, externalTitle, externalAvatarPath, requestState,
                   startingTitleRef, startingAvatarPathRef, title,
                   hasAvatarChanged, shouldCancel, lastRequest,
                   makeRequestCalls, closeClicks, onCloseCalls, userPick>>
    /\ UNCHANGED storyVars

\* catch (err) { log.warn(...) }
CatchRejection ==
    /\ resolution = "rejected"
    /\ resolution' = "failed"
    /\ logWarns' = logWarns + 1
    /\ UNCHANGED <<mounted, externalTitle, externalAvatarPath, requestState,
                   startingTitleRef, startingAvatarPathRef, avatar, title,
                   hasAvatarChanged, shouldCancel, lastRequest,
                   makeRequestCalls, closeClicks, onCloseCalls, userPick>>
    /\ UNCHANGED storyVars

NextEdit ==
    \/ ChangeTitle
    \/ ChangeAvatar
    \/ Submit
    \/ ClickCloseButton
    \/ ClickCancelButton
    \/ SetRequestState
    \/ SetExternalTitle
    \/ SetExternalAvatarPath
    \/ Unmount
    \/ DecodeResolves
    \/ DecodeRejects
    \/ EncodeRejects
    \/ EncodeResolves
    \/ CatchRejection

(***************************************************************************)
(* StoryViewsNRepliesModal: the render.  An element is the sequence of the *)
(* nodes it holds, in document order; an undefined element is <<>>.        *)
(***************************************************************************)
\* composerElement with the isMyStory test left out
composerElement_IgnoresMyStory ==
    IF canReply
    THEN (IF ~isGroupStory THEN <<"quote">> ELSE <<>>)
         \o <<"composer", "reactButton">>
         \o (IF showReactionPicker THEN <<"reactionPicker">> ELSE <<>>)
    ELSE <<>>

composerElement ==
    IF ~isMyStory /\ canReply
    THEN (IF ~isGroupStory THEN <<"quote">> ELSE <<>>)
         \o <<"composer", "reactButton">>
         \o (IF showReactionPicker THEN <<"reactionPicker">> ELSE <<>>)
    ELSE <<>>

\* the row one reply renders as
ReplyRow(reply) ==
    IF TruthyString(reply.reactionEmoji) THEN "reaction"
    ELSE IF reply.deletedForEveryone THEN "reply--doe"
    ELSE "reply"

\* repliesElement without the group-story placeholder branch
repliesElement_NoPlaceholder ==
    IF Len(replies) > 0
    THEN [i \in 1..Len(replies) |-> ReplyRow(replies[i])] \o <<"bottom">>
    ELSE <<>>

repliesElement ==
    IF Len(replies) > 0
    THEN [i \in 1..Len(replies) |-> ReplyRow(replies[i])] \o <<"bottom">>
    ELSE IF isGroupStory THEN <<"noReplies">>
    ELSE <<>>

viewsElement ==
    IF Len(views) > 0
    THEN [i \in 1..Len(views) |-> "view"]
    ELSE <<>>

tabsElement ==
    IF Len(views) > 0 /\ Len(replies) > 0
    THEN <<"tabs">>
         \o (IF selectedTab = TabViews THEN viewsElement ELSE <<>>)
         \o (IF selectedTab = TabReplies
             THEN repliesElement \o composerElement ELSE <<>>)
    ELSE <<>>

\* the component's return value: <<>> is null
Render ==
    LET tabs == tabsElement
        viewsEl == viewsElement
        repliesEl == repliesElement
        composer == composerElement
    IN  IF /\ tabs = <<>> /\ viewsEl = <<>>
           /\ repliesEl = <<>> /\ composer = <<>>
        THEN <<>>
        ELSE <<"modal">>
             \o (IF tabs /= <<>>
                 THEN tabs
                 ELSE (IF viewsEl /= <<>> THEN viewsEl ELSE repliesEl)
                      \o composer)

\* how many times a node occurs in the rendered output
Count(node) ==
    LET out == Render
    IN  Cardinality({i \in DOMAIN out : out[i] = node})

Rendered(node) ==
    LET out == Render
    IN  \E i \in DOMAIN out : out[i] = node

\* inputApiRef.current: CompositionInput fills the ref while it is mounted
inputApiRefCurrent == IF Rendered("composer") THEN "inputApi" ELSE Undefined

(***************************************************************************)
(* State after the story modal has mounted.                                *)
(***************************************************************************)
InitStory ==
    /\ canReply \in BOOLEAN
    /\ isGroupStory \in BOOLEAN
    /\ isMyStory \in BOOLEAN
    /\ replies = <<>>
    /\ views = <<>>
    /\ selectedTab = TabViews
    /\ showReactionPicker = FALSE
    /\ messageBodyText = ""
    /\ draftText = ""
    /\ draftMentions = <<>>
    /\ now = 1
    /\ lastReply = <<>>
    /\ onReplyCalls = 0
    /\ lastReact = <<>>
    /\ onReactCalls = 0
    /\ pickedEmoji = NoEmoji
    /\ reactClickParity = FALSE
    /\ pickerCloseParity = FALSE

(***************************************************************************)
(* The composer.                                                           *)
(***************************************************************************)
\* the user edits the draft; onEditorStateChange sets messageBodyText
EditDraft ==
    /\ Rendered("composer")
    /\ \E d \in Drafts :
          /\ draftText' = d.text
          /\ draftMentions' = d.mentions
          /\ messageBodyText' = d.text
    /\ UNCHANGED <<canReply, isGroupStory, isMyStory, replies, views,
                   selectedTab, showReactionPicker, now, lastReply,
                   onReplyCalls, lastReact, onReactCalls, pickedEmoji,
                   reactClickParity, pickerCloseParity>>
    /\ UNCHANGED editVars

\* InputApi.reset(): the editor is emptied, which the editor reports through
\* onEditorStateChange
InputApiReset ==
    /\ draftText' = ""
    /\ draftMentions' = <<>>
    /\ messageBodyText' = ""

\* an onSubmit that reads the composer after the reset instead of its args
ComposerOnSubmit_ReadsAfterReset(message, mentions, timestamp) ==
    /\ IF inputApiRefCurrent /= Undefined
       THEN InputApiReset
       ELSE UNCHANGED <<draftText, draftMentions, messageBodyText>>
    /\ lastReply' = <<[message |-> draftText', mentions |-> draftMentions',
                       timestamp |-> timestamp]>>
    /\ onReplyCalls' = onReplyCalls + 1

\* CompositionInput onSubmit={(...args) => { reset(); onReply(...args) }}
ComposerOnSubmit(message, mentions, timestamp) ==
    /\ IF inputApiRefCurrent /= Undefined
       THEN InputApiReset
       ELSE UNCHANGED <<draftText, draftMentions, messageBodyText>>
    /\ lastReply' = <<[message |-> message, mentions |-> mentions,
                       timestamp |-> timestamp]>>
    /\ onReplyCalls' = onReplyCalls + 1

\* the composer submits its current text and mentions, stamped with the time
SubmitReply ==
    /\ Rendered("composer")
    /\ onReplyCalls < MaxReplyCalls
    /\ ComposerOnSubmit(draftText, draftMentions, now)
    /\ UNCHANGED <<canReply, isGroupStory, isMyStory, replies, views,
                   selectedTab, showReactionPicker, now, lastReact,
                   onReactCalls, pickedEmoji, reactClickParity,
                   pickerCloseParity>>
    /\ UNCHANGED editVars

Tick ==
    /\ now < MaxClock
    /\ now' = now + 1
    /\ UNCHANGED <<canReply, isGroupStory, isMyStory, replies, views,
                   selectedTab, showReactionPicker, messageBodyText,
                   draftText, draftMentions, lastReply, onReplyCalls,
                   lastReact, onReactCalls, pickedEmoji, reactClickParity,
                   pickerCloseParity>>
    /\ UNCHANGED editVars

(***************************************************************************)
(* The reaction picker.                                                    *)
(***************************************************************************)
\* the react button's onClick
ClickReactButton ==
    /\ Rendered("reactButton")
    /\ showReactionPicker' = ~showReactionPicker
    /\ reactClickParity' = ~reactClickParity
    /\ UNCHANGED <<canReply, isGroupStory, isMyStory, replies, views,
                   selectedTab, messageBodyText, draftText, draftMentions,
                   now, lastReply, onReplyCalls, lastReact, onReactCalls,
                   pickedEmoji, pickerCloseParity>>
    /\ UNCHANGED editVars

\* ReactionPicker onClose
ReactionPickerOnClose ==
    /\ Rendered("reactionPicker")
    /\ showReactionPicker' = FALSE
    /\ pickerCloseParity' = ~pickerCloseParity
    /\ UNCHANGED <<canReply, isGroupStory, isMyStory, replies, views,
                   selectedTab, messageBodyText, draftText, draftMentions,
                   now, lastReply, onReplyCalls, lastReact, onReactCalls,
                   pickedEmoji, reactClickParity>>
    /\ UNCHANGED editVars

\* an onPick that forwards the emoji and leaves the picker open
ReactionPickerOnPick_StaysOpen ==
    /\ Rendered("reactionPicker")
    /\ onReactCalls < MaxReacts
    /\ \E emoji \in Emojis :
          /\ pickedEmoji' = emoji
          /\ lastReact' = <<emoji>>
    /\ onReactCalls' = onReactCalls + 1
    /\ UNCHANGED <<canReply, isGroupStory, isMyStory, replies, views,
                   selectedTab, showReactionPicker, messageBodyText,
                   draftText, draftMentions, now, lastReply, onReplyCalls,
                   reactClickParity, pickerCloseParity>>
    /\ UNCHANGED editVars

\* ReactionPicker onPick
ReactionPickerOnPick ==
    /\ Rendered("reactionPicker")
    /\ onReactCalls < MaxReacts
    /\ \E emoji \in Emojis :
          /\ pickedEmoji' = emoji
          /\ lastReact' = <<emoji>>
    /\ showReactionPicker' = FALSE
    /\ onReactCalls' = onReactCalls + 1
    /\ UNCHANGED <<canReply, isGroupStory, isMyStory, replies, views,
                   selectedTab, messageBodyText, draftText, draftMentions,
                   now, lastReply, onReplyCalls, reactClickParity,
                   pickerCloseParity>>
    /\ UNCHANGED editVars

(***************************************************************************)
(* The tabs, and the host's new props.                                     *)
(***************************************************************************)
SelectTab ==
    /\ Rendered("tabs")
    /\ \E tab \in {TabViews, TabReplies} \ {selectedTab} : selectedTab' = tab
    /\ UNCHANGED <<canReply, isGroupStory, isMyStory, replies, views,
                   showReactionPicker, messageBodyText, draftText,
                   draftMentions, now, lastReply, onReplyCalls, lastReact,
                   onReactCalls, pickedEmoji, reactClickParity,
                   pickerCloseParity>>
    /\ UNCHANGED editVars

AddReply ==
    /\ Len(replies) < MaxReplies
    /\ \E reply \in ReplyValues : replies' = Append(replies, reply)
    /\ UNCHANGED <<canReply, isGroupStory, isMyStory, views, selectedTab,
                   showReactionPicker, messageBodyText, draftText,
                   draftMentions, now, lastReply, onReplyCalls, lastReact,
                   onReactCalls, pickedEmoji, reactClickParity,
                   pickerCloseParity>>
    /\ UNCHANGED editVars

AddView ==
    /\ Len(views) < MaxViews
    /\ \E view \in ViewValues : views' = Append(views, view)
    /\ UNCHANGED <<canReply, isGroupStory, isMyStory, replies, selectedTab,
                   showReactionPicker, messageBodyText, draftText,
                   draftMentions, now, lastReply, onReplyCalls, lastReact,
                   onReactCalls, pickedEmoji, reactClickParity,
                   pickerCloseParity>>
    /\ UNCHANGED editVars

NextStory ==
    \/ EditDraft
    \/ SubmitReply
    \/ Tick
    \/ ClickReactButton
    \/ ReactionPickerOnClose
    \/ ReactionPickerOnPick
    \/ SelectTab
    \/ AddReply
    \/ AddView

(***************************************************************************)
(* Specifications: one per component, the other component not mounted.     *)
(***************************************************************************)
\* the edit modal's variables while only the story modal is on screen
EditAtRest ==
    /\ mounted = FALSE
    /\ externalTitle = ""
    /\ externalAvatarPath = Undefined
    /\ requestState = Inactive
    /\ startingTitleRef = ""
    /\ startingAvatarPathRef = Undefined
    /\ avatar = Undefined
    /\ title = ""
    /\ hasAvatarChanged = FALSE
    /\ shouldCancel = FALSE
    /\ resolution = "none"
    /\ logWarns = 0
    /\ lastRequest = <<>>
    /\ makeRequestCalls = 0
    /\ closeClicks = 0
    /\ onCloseCalls = 0
    /\ userPick = NoPick

\* the story modal's variables while only the edit modal is on screen
StoryAtRest ==
    /\ InitStory
    /\ canReply = FALSE
    /\ isGroupStory = FALSE
    /\ isMyStory = FALSE

InitEditSpec == InitEdit /\ StoryAtRest

InitStorySpec == InitStory /\ EditAtRest

EditSpec == InitEditSpec /\ [][NextEdit]_vars

StorySpec == InitStorySpec /\ [][NextStory]_vars

(***************************************************************************)
(* Claims about EditConversationAttributesModal.                           *)
(***************************************************************************)

\* C1: while the modal is mounted, the submit control is enabled if and only
\* if requestState is not Active, the working title is non-empty, and at
\* least one of {the working title differs from the title at mount, the user
\* changed the avatar, the title or avatarPath prop differs from its value at
\* mount} holds.
C1_SubmitEnabledIff ==
    mounted =>
        (~submitDisabled <=>
            /\ requestState /= Active
            /\ title /= ""
            /\ \/ title /= startingTitleRef
               \/ userPick /= NoPick
               \/ externalTitle /= startingTitleRef
               \/ externalAvatarPath /= startingAvatarPathRef)

\* C1 witness: each enabling reason alone enables submit, and an empty
\* title disables it: here only the avatar was changed.
C1_Witness ==
    /\ mounted /\ ~submitDisabled
    /\ userPick /= NoPick
    /\ title = startingTitleRef
    /\ externalTitle = startingTitleRef
    /\ externalAvatarPath = startingAvatarPathRef

\* C2 as stated: every submit calls makeRequest once with a record that holds
\* `title` exactly when the working title differs from the title supplied at
\* mount, and `avatar` exactly when the user changed the avatar.
C2_Original ==
    [][makeRequestCalls' /= makeRequestCalls =>
         /\ makeRequestCalls' = makeRequestCalls + 1
         /\ Len(lastRequest') = 1
         /\ ("title" \in DOMAIN lastRequest'[1]) <=> (title /= startingTitleRef)
         /\ ("avatar" \in DOMAIN lastRequest'[1]) <=> (userPick /= NoPick)
      ]_vars

\* C2 amended: every submit calls makeRequest once with a record that holds
\* `title` (the working title) exactly when the working title differs from
\* the current title prop, and `avatar` (the working avatar) exactly when the
\* user changed the avatar; no other field is present.
C2_SubmitSendsChangedFields ==
    [][makeRequestCalls' /= makeRequestCalls =>
         /\ makeRequestCalls' = makeRequestCalls + 1
         /\ Len(lastRequest') = 1
         /\ DOMAIN lastRequest'[1] \subseteq {"title", "avatar"}
         /\ ("title" \in DOMAIN lastRequest'[1]) <=> (title /= externalTitle)
         /\ ("title" \in DOMAIN lastRequest'[1]) =>
                lastRequest'[1]["title"] = title
         /\ ("avatar" \in DOMAIN lastRequest'[1]) <=> (userPick /= NoPick)
         /\ ("avatar" \in DOMAIN lastRequest'[1]) =>
                lastRequest'[1]["avatar"] = avatar
      ]_vars

\* C2 witness: a submit after both fields changed sent both fields.
C2_Witness ==
    /\ makeRequestCalls = 1
    /\ DOMAIN lastRequest[1] = {"title", "avatar"}

\* C3: once the modal is unmounted the working avatar is never updated, and
\* a failed resolution is always caught (it ends "failed", never uncaught).
C3_NoUpdateAfterUnmount ==
    [][/\ ~mounted => avatar' = avatar
       /\ resolution = "rejected" => resolution' \in {"rejected", "failed"}
      ]_vars

\* C3 witness: the resolution completed after the unmount and was discarded.
C3_Witness ==
    /\ ~mounted
    /\ resolution = "cancelled"
    /\ avatar = TEMPORARY_AVATAR_VALUE

\* C4 as stated: every click on the close or cancel button invokes onClose,
\* in every state of the form.
C4_Original ==
    [][closeClicks' = closeClicks + 1 => onCloseCalls' = onCloseCalls + 1]_vars

\* C4 amended: a click on the close or cancel button invokes onClose exactly
\* once, without confirmation, whenever requestState is not Active (unsaved
\* edits or not); while requestState is Active both buttons are disabled and
\* a click invokes nothing.
C4_CloseUnlessActive ==
    [][closeClicks' = closeClicks + 1 =>
         onCloseCalls' = onCloseCalls
                         + (IF requestState = Active THEN 0 ELSE 1)]_vars

\* C4 witness: onClose was invoked by a click made with unsaved edits.
C4_Witness ==
    /\ onCloseCalls = 1
    /\ title /= startingTitleRef
    /\ userPick /= NoPick
    /\ makeRequestCalls = 0

\* C5: a failed resolution is caught and logged once, and changes nothing
\* else: the working avatar, the title, the avatar dirty flag and the submit
\* control are as before the failure, and nothing is sent or closed.
C5_FailureOnlyLogged ==
    [][resolution = "rejected" /\ resolution' /= "rejected" =>
         /\ resolution' = "failed"
         /\ logWarns' = logWarns + 1
         /\ avatar' = avatar
         /\ title' = title
         /\ hasAvatarChanged' = hasAvatarChanged
         /\ submitDisabled' = submitDisabled
         /\ avatarInputDisabled' = avatarInputDisabled
         /\ titleInputDisabled' = titleInputDisabled
         /\ UNCHANGED <<lastRequest, makeRequestCalls, onCloseCalls,
                        requestState, mounted>>
      ]_vars

\* C5 witness: after a failed resolution the form was edited and submitted.
C5_Witness ==
    /\ resolution = "failed"
    /\ logWarns = 1
    /\ mounted
    /\ makeRequestCalls = 1
    /\ title /= startingTitleRef

\* C9 as stated: once the user has picked an avatar, the working avatar stays
\* the user's pick whatever the pending resolution does later, and the
\* `avatar` field of a submit is the user's pick.
C9_UserChoiceKept ==
    [][/\ userPick' /= NoPick => avatar' = userPick'
       /\ (makeRequestCalls' /= makeRequestCalls
           /\ "avatar" \in DOMAIN lastRequest'[1])
              => lastRequest'[1]["avatar"] = userPick
      ]_vars

(***************************************************************************)
(* Claims about StoryViewsNRepliesModal.                                   *)
(***************************************************************************)

\* C6: for every views, replies, isGroupStory and selected tab, the reply
\* composer is in the rendered output only if isMyStory is false and
\* canReply is true.
C6_ComposerOnlyIfNotMineAndCanReply ==
    Rendered("composer") => (~isMyStory /\ canReply)

\* C6 witness: the composer is rendered under the Replies tab.
C6_Witness ==
    /\ Rendered("composer")
    /\ Rendered("tabs")
    /\ selectedTab = TabReplies

\* C7 as stated: a group story with no replies renders the "no replies yet"
\* placeholder exactly once, whatever views, isMyStory and canReply are.
C7_Original ==
    (isGroupStory /\ replies = <<>>) => Count("noReplies") = 1

\* C7 amended: a group story with no replies renders the "no replies yet"
\* placeholder exactly once when the views collection is empty too, for every
\* isMyStory and canReply; when views is non-empty the viewer list is
\* rendered in its place and the placeholder is absent.
C7_PlaceholderWhenNothingElse ==
    (isGroupStory /\ replies = <<>>) =>
        Count("noReplies") = (IF views = <<>> THEN 1 ELSE 0)

\* C7 witness: the placeholder is shown next to the composer.
C7_Witness ==
    /\ isGroupStory /\ replies = <<>> /\ views = <<>>
    /\ Count("noReplies") = 1
    /\ Rendered("composer")

\* C8: a submit of the composer calls onReply exactly once with the text,
\* the mention ranges and the timestamp the composer held before the submit,
\* and leaves the draft text and mentions empty.
C8_SubmitResetsAndForwards ==
    [][onReplyCalls' /= onReplyCalls =>
         /\ onReplyCalls' = onReplyCalls + 1
         /\ lastReply' = <<[message |-> draftText,
                            mentions |-> draftMentions,
                            timestamp |-> now]>>
         /\ draftText' = ""
         /\ draftMentions' = <<>>
      ]_vars

\* C8 witness: a draft with text and a mention was submitted at a later time.
C8_Witness ==
    /\ onReplyCalls = 1
    /\ lastReply[1].message = "hi @m"
    /\ lastReply[1].mentions = <<"m">>
    /\ lastReply[1].timestamp = 2
    /\ draftText = ""

\* C10 as stated, its part (a): after a reply submission the picker is
\* Closed.
C10_Original ==
    [][onReplyCalls' /= onReplyCalls => showReactionPicker' = FALSE]_vars

\* C10 amended: the picker starts Closed; each click on the react button
\* flips it; after the picker's own close event or a picked reaction it is
\* Closed, and a pick forwards the chosen emoji to onReact exactly once; a
\* reply submission, like every other step, leaves it as it was.
C10_PickerStateMachine ==
    /\ showReactionPicker = FALSE
    /\ [][/\ reactClickParity' /= reactClickParity =>
               showReactionPicker' = ~showReactionPicker
          /\ pickerCloseParity' /= pickerCloseParity =>
               showReactionPicker' = FALSE
          /\ onReactCalls' /= onReactCalls =>
               /\ showReactionPicker' = FALSE
               /\ onReactCalls' = onReactCalls + 1
               /\ lastReact' = <<pickedEmoji'>>
          /\ (/\ reactClickParity' = reactClickParity
              /\ pickerCloseParity' = pickerCloseParity
              /\ onReactCalls' = onReactCalls) =>
               showReactionPicker' = showReactionPicker
         ]_vars

\* C10 witness: a reaction was picked and the picker is Closed again, after
\* a reply was submitted.
C10_Witness ==
    /\ onReactCalls = 1
    /\ lastReact = <<"e2">>
    /\ showReactionPicker = FALSE
    /\ onReplyCalls = 1

\* C11: the placeholder TEMPORARY_AVATAR_VALUE is never sent to makeRequest:
\* the `avatar` field of a request, when present, is a value the avatar input
\* emitted or the bytes resolved from the starting avatar path.
C11_SentinelNeverSent ==
    \A i \in 1..Len(lastRequest) :
        "avatar" \in DOMAIN lastRequest[i] =>
            /\ lastRequest[i]["avatar"] /= TEMPORARY_AVATAR_VALUE
            /\ lastRequest[i]["avatar"] \in
                   UserAvatars
                   \cup {imagePathToArrayBuffer(startingAvatarPathRef)}

\* C11 witness: a request carrying an avatar was sent while the starting
\* avatar was still loading, after the title alone could have been submitted
\* with the placeholder as the working avatar.
C11_Witness ==
    /\ TruthyString(startingAvatarPathRef)
    /\ resolution = "decoding"
    /\ makeRequestCalls = 1
    /\ "avatar" \in DOMAIN lastRequest[1]

====
